---- MODULE Spec2Model ----
(***************************************************************************)
(* A model of the TFT guide's recognition-and-decision pipeline:           *)
(*   - ScreenCapture (src/capture/screen.py): the start/stop lifecycle,    *)
(*     the background capture loop, its readers and its frame callbacks;   *)
(*   - DeckRecommender (src/engine/recommender.py): the reference tables,  *)
(*     reload_data, the pool accounting, the recommendations and the shop  *)
(*     advice;                                                             *)
(*   - ChampionDetector (src/recognition/detector.py): the threshold, the  *)
(*     template matching of detect_champions and the deduplication.        *)
(* Request contexts are the threads of the web server (src/ui/app.py);     *)
(* loop threads are the threads ScreenCapture.start creates.  One step of  *)
(* a context is one access to shared state together with the local         *)
(* computation that follows it.                                            *)
(***************************************************************************)
EXTENDS Integers, Sequences, FiniteSets, TLC

\* Bounds of the model.
MaxThreads == 2      \* loop threads ever created by start()
MaxFrames == 2       \* frames ever grabbed from the screen
MaxCallbacks == 2    \* callbacks ever registered with on_frame()

\* The request contexts and the loop threads.
Req == {"r1", "r2"}
Thr == 1..MaxThreads

\* None, for a frame, a window rectangle, a thread handle and a free lock.
NoFrame == 0
NoRegion == 0
NoThread == 0
Free == 0

\* Where the game window can be on the screen (what _find_tft_window
\* returns while it is there; None while there is no game window).
WinRects == {1, 2}

\* What a registered callback does with the frame it is given: return,
\* raise, or change the array in place.
CbKinds == {"ok", "fault", "mutate"}

\* The seconds elapsed when the FPS window closes (elapsed >= 1.0): the
\* window is taken to close as soon as it can.
FpsWindow == 1

VARIABLES
  \* ScreenCapture's fields
  running, thread, latest_frame, latest_detections, last_capture_time,
  frame_count, fps, fps_timer, lock, callbacks, window_region, detector,
  \* the loop threads: position and locals of _loop and capture_once
  tpc, frame, detections, detFailed, now, region, cnt, cbi, fps_frames,
  \* the request contexts: position and the value a read returned
  pc, ret,
  \* the environment: frames grabbed so far (the logical clock), threads
  \* created so far, and the frames whose array was changed in place
  nextFrame, nextThread, mutated,
  \* the environment: where the game window is now, and the frames in
  \* which the detector found champions
  window, foundIn,
  \* history: the callbacks a loop invoked for its current frame, the
  \* context whose start() moved the capture to Running, the loops that were
  \* alive when stop() ran, whether refresh_window() returned and no
  \* discovery has run since, and whether a cycle began in that condition
  invoked, startedBy, stopSeen, refreshPending, sinceRefresh,
  \* history: the frames published since the start() that moved the capture
  \* from Stopped to Running
  sinceStart,
  \* DeckRecommender's fields
  champions, meta_decks, champ_map,
  \* the reference data on disk (which data set the JSON files hold)
  disk,
  \* the contexts calling the recommender: position, the tables the call
  \* has read so far, and the champions it has still to look up
  epc, seen, todo,
  \* a pool request: the opponents' rosters, the pool calculate_pool
  \* returned and the status get_pool_status returned
  opponents, pool, status,
  \* a request to the recommender: the level, the gold, the champions owned
  \* and the champions in the shop; the champion a shop_probability call
  \* asks for and its result; the results of recommend and of
  \* get_shop_advice
  level, gold, my, shop, query, prob, recs, advice,
  \* ChampionDetector's threshold
  threshold,
  \* a detect_champions call: its position, the template and the scale it
  \* is at, its best score for the template, the list of detections it
  \* hands to _nms_boxes (which sorts it in place) and the list it returns
  dpc, tmpl, scale, best_conf, boxes, kept,
  \* history: the threshold values the call has compared a score with
  used

captureVars == <<running, thread, latest_frame, latest_detections,
                 last_capture_time, frame_count, fps, fps_timer, lock,
                 callbacks, window_region, detector>>
loopVars == <<tpc, frame, detections, detFailed, now, region, cnt, cbi,
              fps_frames>>
reqVars == <<pc, ret>>
envVars == <<nextFrame, nextThread, mutated, window, foundIn>>
histVars == <<invoked, startedBy, stopSeen, refreshPending, sinceRefresh,
              sinceStart>>
callVars == <<level, gold, my, shop, query, prob, recs, advice>>
detectVars == <<threshold, dpc, tmpl, scale, best_conf, boxes, kept, used>>
engineVars == <<champions, meta_decks, champ_map, disk, epc, seen, todo,
                opponents, pool, status, callVars, detectVars>>
vars == <<captureVars, loopVars, reqVars, envVars, histVars, engineVars>>

\* The published state of the capture (what _loop writes under the lock).
published == <<latest_frame, latest_detections, last_capture_time,
               frame_count, fps>>

NoRet == [op |-> "none"]

\* time.time(), as a logical clock: the number of frames grabbed so far.
Time == nextFrame

\* detector.detect_champions(frame) when it finds something: detections
\* that carry the frame they were computed from.
Detect(f) == <<[of |-> f]>>

\* What the detection block of the cycle that grabbed f computed.
Computed(f) == IF f \in foundIn THEN Detect(f) ELSE <<>>

\* round(self._fps, 1), in tenths; fps is the pair <<frames, seconds>>.
Round1(f) == (20 * f[1] + f[2]) \div (2 * f[2])

\* A thread that has been started and has not left _loop.
Alive(t) == tpc[t] \notin {"unborn", "new", "done"}

StartPcs == {"s_set", "s_reset", "s_new", "s_run"}

CaptureInit(dets, win) ==
  /\ running = FALSE
  /\ thread = NoThread
  /\ latest_frame = NoFrame
  /\ latest_detections = <<>>
  /\ last_capture_time = 0
  /\ frame_count = 0
  /\ fps = <<0, 1>>
  /\ fps_timer = 0
  /\ lock = Free
  /\ callbacks = <<>>
  /\ window_region = NoRegion
  /\ detector \in dets
  /\ tpc = [t \in Thr |-> "unborn"]
  /\ frame = [t \in Thr |-> NoFrame]
  /\ detections = [t \in Thr |-> <<>>]
  /\ detFailed = [t \in Thr |-> FALSE]
  /\ now = [t \in Thr |-> 0]
  /\ region = [t \in Thr |-> NoRegion]
  /\ cnt = [t \in Thr |-> 0]
  /\ cbi = [t \in Thr |-> 1]
  /\ fps_frames = [t \in Thr |-> 0]
  /\ pc = [c \in Req |-> "idle"]
  /\ ret = [c \in Req |-> NoRet]
  /\ nextFrame = 0
  /\ nextThread = 0
  /\ mutated = {}
  /\ window \in win
  /\ foundIn = {}
  /\ invoked = [t \in Thr |-> <<>>]
  /\ startedBy = "none"
  /\ stopSeen = {}
  /\ refreshPending = FALSE
  /\ sinceRefresh = [t \in Thr |-> FALSE]
  /\ sinceStart = 0

----------------------------------------------------------------------------
\* ScreenCapture.start

\* if self._running: return.  A call that passes the test goes on only
\* while the threads created and about to be created stay within MaxThreads.
StartCheck(c) ==
  /\ pc[c] = "idle"
  /\ IF running
       THEN UNCHANGED vars
       ELSE /\ nextThread + Cardinality({d \in Req : pc[d] \in StartPcs})
                 < MaxThreads
            /\ pc' = [pc EXCEPT ![c] = "s_set"]
            /\ UNCHANGED <<engineVars,
                           captureVars, loopVars, ret, envVars, histVars>>

\* self._running = True; self._fps_timer = time.time()
StartSet(c) ==
  /\ pc[c] = "s_set"
  /\ running' = TRUE
  /\ fps_timer' = Time
  /\ startedBy' = IF running THEN startedBy ELSE c
  /\ sinceStart' = IF running THEN sinceStart ELSE 0
  /\ pc' = [pc EXCEPT ![c] = "s_reset"]
  /\ UNCHANGED <<engineVars,
                 thread, latest_frame, latest_detections, last_capture_time,
                 frame_count, fps, lock, callbacks, window_region, detector,
                 loopVars, ret, envVars, invoked, stopSeen, refreshPending,
                 sinceRefresh>>

\* self._frame_count = 0
StartReset(c) ==
  /\ pc[c] = "s_reset"
  /\ frame_count' = 0
  /\ pc' = [pc EXCEPT ![c] = "s_new"]
  /\ UNCHANGED <<engineVars, running, thread, latest_frame, latest_detections,
                 last_capture_time, fps, fps_timer, lock, callbacks,
                 window_region, detector, loopVars, ret, envVars, histVars>>

\* self._thread = threading.Thread(target=self._loop, daemon=True)
StartNew(c) ==
  /\ pc[c] = "s_new"
  /\ nextThread < MaxThreads
  /\ nextThread' = nextThread + 1
  /\ thread' = nextThread + 1
  /\ tpc' = [tpc EXCEPT ![nextThread + 1] = "new"]
  /\ pc' = [pc EXCEPT ![c] = "s_run"]
  /\ UNCHANGED <<engineVars,
                 running, latest_frame, latest_detections, last_capture_time,
                 frame_count, fps, fps_timer, lock, callbacks, window_region,
                 detector, frame, detections, detFailed, now, region, cnt,
                 cbi, fps_frames, ret, nextFrame, mutated, window, foundIn,
                 histVars>>

\* self._thread.start(): starts the thread the handle names now; a thread
\* that was already started raises RuntimeError and start() ends there.
StartRun(c) ==
  /\ pc[c] = "s_run"
  /\ tpc' = IF tpc[thread] = "new"
              THEN [tpc EXCEPT ![thread] = "check"]
              ELSE tpc
  /\ pc' = [pc EXCEPT ![c] = "idle"]
  /\ UNCHANGED <<engineVars,
                 captureVars, frame, detections, detFailed, now, region, cnt,
                 cbi, fps_frames, ret, envVars, histVars>>

----------------------------------------------------------------------------
\* ScreenCapture.stop

\* self._running = False
StopClear(c) ==
  /\ pc[c] = "idle"
  /\ running' = FALSE
  /\ startedBy' = "none"
  /\ stopSeen' = stopSeen \cup {t \in Thr : Alive(t)}
  /\ pc' = [pc EXCEPT ![c] = "p_join"]
  /\ UNCHANGED <<engineVars,
                 thread, latest_frame, latest_detections, last_capture_time,
                 frame_count, fps, fps_timer, lock, callbacks, window_region,
                 detector, loopVars, ret, envVars, invoked, refreshPending,
                 sinceRefresh, sinceStart>>

\* if self._thread: self._thread.join(timeout=5): returns when the thread
\* has ended or when the five seconds are over, whichever comes first.
StopJoin(c) ==
  /\ pc[c] = "p_join"
  /\ pc' = [pc EXCEPT ![c] = "idle"]
  /\ UNCHANGED <<engineVars, captureVars, loopVars, ret, envVars, histVars>>

----------------------------------------------------------------------------
\* ScreenCapture._loop and capture_once, one loop thread t

\* The publish block entered without taking the lock.
AcquireSkipped(t) == lock' = lock

\* with self._lock: (entering the publish block of _loop)
Acquire(t) ==
  /\ lock = Free
  /\ lock' = t

\* The cycle going on to publish whatever capture_once returned.
AfterCaptureUnchecked(f) == "pub_frame"

\* if frame is not None: the position after capture_once returned f
AfterCapture(f) == IF f = NoFrame THEN "sleep" ELSE "pub_frame"

\* try: detections = self.detector.detect_champions(frame)
\* except Exception: logged; detections stays []
DetectResult(f, o) == IF o = "found" THEN Detect(f) ELSE <<>>

\* The detection block without its except clause: a failure ends _loop.
AfterDetectUncaught(o) == IF o = "fail" THEN "done" ELSE "pub_frame"

\* the position after the detection block, whatever its outcome o
AfterDetect(o) == "pub_frame"

\* The callback loop with the try around the whole for statement: a fault
\* ends the iteration.
AfterCallbackUncaught(k) == IF k = "fault" THEN "sleep" ELSE "cb"

\* try: cb(frame) except Exception: pass -- the position after a callback
\* of kind k returned or raised
AfterCallback(k) == "cb"

\* while self._running:
LoopCheck(t) ==
  /\ tpc[t] = "check"
  /\ IF running
       THEN /\ tpc' = [tpc EXCEPT ![t] = "resolve"]
            /\ sinceRefresh' = [sinceRefresh EXCEPT ![t] = refreshPending]
            /\ UNCHANGED stopSeen
       ELSE /\ tpc' = [tpc EXCEPT ![t] = "done"]
            /\ stopSeen' = stopSeen \ {t}
            /\ UNCHANGED sinceRefresh
  /\ UNCHANGED <<engineVars,
                 captureVars, frame, detections, detFailed, now, region, cnt,
                 cbi, fps_frames, reqVars, envVars, invoked, startedBy,
                 refreshPending, sinceStart>>

\* capture_once up to line 105: mss missing or mss.mss() raising returns
\* None; otherwise region = self._window_region or _find_tft_window()
LoopResolve(t) ==
  /\ tpc[t] = "resolve"
  /\ \/ /\ tpc' = [tpc EXCEPT ![t] = AfterCapture(NoFrame)]
        /\ UNCHANGED <<region, refreshPending>>
     \/ /\ region' = [region EXCEPT ![t] =
                        IF window_region # NoRegion THEN window_region
                                                    ELSE window]
        /\ refreshPending' = IF window_region = NoRegion THEN FALSE
                                                         ELSE refreshPending
        /\ tpc' = [tpc EXCEPT ![t] = "cache"]
  /\ UNCHANGED <<engineVars,
                 captureVars, frame, detections, detFailed, now, cnt, cbi,
                 fps_frames, reqVars, envVars, invoked, startedBy, stopSeen,
                 sinceRefresh, sinceStart>>

\* capture_once lines 106-116: cache the rectangle, grab (which may raise),
\* then _loop lines 183-192: now = time.time() and the detection block
LoopCache(t) ==
  /\ tpc[t] = "cache"
  /\ window_region' = IF region[t] # NoRegion THEN region[t]
                                              ELSE window_region
  /\ \/ /\ tpc' = [tpc EXCEPT ![t] = AfterCapture(NoFrame)]
        /\ UNCHANGED <<frame, detections, detFailed, now, nextFrame,
                       foundIn>>
     \/ /\ nextFrame < MaxFrames
        /\ nextFrame' = nextFrame + 1
        /\ frame' = [frame EXCEPT ![t] = nextFrame + 1]
        /\ now' = [now EXCEPT ![t] = nextFrame + 1]
        /\ \E o \in IF detector THEN {"found", "empty", "fail"}
                                ELSE {"empty"} :
             /\ detections' = [detections EXCEPT ![t] =
                                 DetectResult(nextFrame + 1, o)]
             /\ detFailed' = [detFailed EXCEPT ![t] = (o = "fail")]
             /\ foundIn' = IF DetectResult(nextFrame + 1, o) # <<>>
                             THEN foundIn \cup {nextFrame + 1} ELSE foundIn
             /\ tpc' = [tpc EXCEPT ![t] =
                          IF AfterCapture(nextFrame + 1) = "sleep"
                            THEN "sleep" ELSE AfterDetect(o)]
  /\ UNCHANGED <<engineVars, running, thread, latest_frame, latest_detections,
                 last_capture_time, frame_count, fps, fps_timer, lock,
                 callbacks, detector, region, cnt, cbi, fps_frames, reqVars,
                 nextThread, mutated, window, histVars>>

\* with self._lock: self._latest_frame = frame
LoopPubFrame(t) ==
  /\ tpc[t] = "pub_frame"
  /\ Acquire(t)
  /\ latest_frame' = frame[t]
  /\ tpc' = [tpc EXCEPT ![t] = "pub_rest"]
  /\ UNCHANGED <<engineVars,
                 running, thread, latest_detections, last_capture_time,
                 frame_count, fps, fps_timer, callbacks, window_region,
                 detector, frame, detections, detFailed, now, region, cnt,
                 cbi, fps_frames, reqVars, envVars, histVars>>

\* self._latest_detections = detections; self._last_capture_time = now;
\* self._frame_count += 1, the read
LoopPubRest(t) ==
  /\ tpc[t] = "pub_rest"
  /\ latest_detections' = detections[t]
  /\ last_capture_time' = now[t]
  /\ cnt' = [cnt EXCEPT ![t] = frame_count]
  /\ tpc' = [tpc EXCEPT ![t] = "pub_wcount"]
  /\ UNCHANGED <<engineVars,
                 running, thread, latest_frame, frame_count, fps, fps_timer,
                 lock, callbacks, window_region, detector, frame, detections,
                 detFailed, now, region, cbi, fps_frames, reqVars, envVars,
                 histVars>>

\* self._frame_count += 1, the write; the with block ends
LoopPubWriteCount(t) ==
  /\ tpc[t] = "pub_wcount"
  /\ frame_count' = cnt[t] + 1
  /\ lock' = IF lock = t THEN Free ELSE lock
  /\ cnt' = [cnt EXCEPT ![t] = 0]
  /\ sinceStart' = sinceStart + 1
  /\ tpc' = [tpc EXCEPT ![t] = "fps"]
  /\ UNCHANGED <<engineVars, running, thread, latest_frame, latest_detections,
                 last_capture_time, fps, fps_timer, callbacks, window_region,
                 detector, frame, detections, detFailed, now, region, cbi,
                 fps_frames, reqVars, envVars, invoked, startedBy, stopSeen,
                 refreshPending, sinceRefresh>>

\* fps_frames += 1; if elapsed >= 1.0: with self._lock: self._fps =
\* fps_frames / elapsed; fps_frames = 0.  The wall clock decides whether
\* the window has closed.
LoopFps(t) ==
  /\ tpc[t] = "fps"
  /\ \/ /\ fps_frames' = [fps_frames EXCEPT ![t] = @ + 1]
        /\ UNCHANGED fps
     \/ /\ lock = Free
        /\ fps' = <<fps_frames[t] + 1, FpsWindow>>
        /\ fps_frames' = [fps_frames EXCEPT ![t] = 0]
  /\ cbi' = [cbi EXCEPT ![t] = 1]
  /\ invoked' = [invoked EXCEPT ![t] = <<>>]
  /\ tpc' = [tpc EXCEPT ![t] = "cb"]
  /\ UNCHANGED <<engineVars, running, thread, latest_frame, latest_detections,
                 last_capture_time, frame_count, fps_timer, lock, callbacks,
                 window_region, detector, frame, detections, detFailed, now,
                 region, cnt, reqVars, envVars, startedBy, stopSeen,
                 refreshPending, sinceRefresh, sinceStart>>

\* for cb in self._callbacks: try: cb(frame) except Exception: pass
LoopCallback(t) ==
  /\ tpc[t] = "cb"
  /\ IF cbi[t] <= Len(callbacks)
       THEN /\ invoked' = [invoked EXCEPT ![t] =
                             Append(@, <<cbi[t], frame[t]>>)]
            /\ mutated' = IF callbacks[cbi[t]] = "mutate"
                            THEN mutated \cup {frame[t]} ELSE mutated
            /\ cbi' = [cbi EXCEPT ![t] = @ + 1]
            /\ tpc' = [tpc EXCEPT ![t] = AfterCallback(callbacks[cbi[t]])]
       ELSE /\ tpc' = [tpc EXCEPT ![t] = "sleep"]
            /\ UNCHANGED <<invoked, mutated, cbi>>
  /\ UNCHANGED <<engineVars,
                 captureVars, frame, detections, detFailed, now, region, cnt,
                 fps_frames, reqVars, nextFrame, nextThread, window, foundIn,
                 startedBy, stopSeen, refreshPending, sinceRefresh,
                 sinceStart>>

\* time.sleep(self.interval); the locals of the cycle are dead
LoopSleep(t) ==
  /\ tpc[t] = "sleep"
  /\ tpc' = [tpc EXCEPT ![t] = "check"]
  /\ frame' = [frame EXCEPT ![t] = NoFrame]
  /\ detections' = [detections EXCEPT ![t] = <<>>]
  /\ detFailed' = [detFailed EXCEPT ![t] = FALSE]
  /\ now' = [now EXCEPT ![t] = 0]
  /\ region' = [region EXCEPT ![t] = NoRegion]
  /\ cbi' = [cbi EXCEPT ![t] = 1]
  /\ invoked' = [invoked EXCEPT ![t] = <<>>]
  /\ UNCHANGED <<engineVars,
                 captureVars, cnt, fps_frames, reqVars, envVars, startedBy,
                 stopSeen, refreshPending, sinceRefresh, sinceStart>>

----------------------------------------------------------------------------
\* The other operations of ScreenCapture, called from a request context

\* refresh_window: self._window_region = None
RefreshWindow(c) ==
  /\ pc[c] = "idle"
  /\ window_region' = NoRegion
  /\ refreshPending' = TRUE
  /\ UNCHANGED <<engineVars, running, thread, latest_frame, latest_detections,
                 last_capture_time, frame_count, fps, fps_timer, lock,
                 callbacks, detector, loopVars, reqVars, envVars, invoked,
                 startedBy, stopSeen, sinceRefresh, sinceStart>>

\* on_frame: self._callbacks.append(callback)
OnFrame(c, k) ==
  /\ pc[c] = "idle"
  /\ Len(callbacks) < MaxCallbacks
  /\ callbacks' = Append(callbacks, k)
  /\ UNCHANGED <<engineVars, running, thread, latest_frame, latest_detections,
                 last_capture_time, frame_count, fps, fps_timer, lock,
                 window_region, detector, loopVars, reqVars, envVars,
                 histVars>>

\* The value each read returns.  latest_frame returns the array object the
\* field refers to (ref), whose content the caller sees through it;
\* latest_detections returns list(...), a new list; the others return
\* numbers and booleans.
LatestFrameValue == [op |-> "latest_frame", ref |-> latest_frame,
                     content |-> latest_frame \in mutated]
LatestDetectionsValue == [op |-> "latest_detections",
                          val |-> latest_detections]
FpsValue == [op |-> "fps", val |-> fps]
LastCaptureTimeValue == [op |-> "last_capture_time",
                         val |-> last_capture_time]
StatusValue == [op |-> "get_status", active |-> running,
                fps |-> Round1(fps), frame_count |-> frame_count,
                last_capture_time |-> last_capture_time,
                has_frame |-> latest_frame # NoFrame,
                detected_count |-> Len(latest_detections)]

\* A read, with self._lock: return ..., after which the caller holds v.
Read(c, v) ==
  /\ pc[c] = "idle"
  /\ lock = Free
  /\ ret' = [ret EXCEPT ![c] = v]
  /\ pc' = [pc EXCEPT ![c] = "hold"]
  /\ UNCHANGED <<engineVars, captureVars, loopVars, envVars, histVars>>

LatestFrame(c) == Read(c, LatestFrameValue)
LatestDetections(c) == Read(c, LatestDetectionsValue)
Fps(c) == Read(c, FpsValue)
LastCaptureTime(c) == Read(c, LastCaptureTimeValue)
GetStatus(c) == Read(c, StatusValue)

\* The caller is done with the value it read.
Drop(c) ==
  /\ pc[c] = "hold"
  /\ ret' = [ret EXCEPT ![c] = NoRet]
  /\ pc' = [pc EXCEPT ![c] = "idle"]
  /\ UNCHANGED <<engineVars, captureVars, loopVars, envVars, histVars>>

----------------------------------------------------------------------------
\* The game window moves, closes or opens.
MoveWindow ==
  /\ \E w \in (WinRects \cup {NoRegion}) \ {window} : window' = w
  /\ UNCHANGED <<engineVars,
                 captureVars, loopVars, reqVars, nextFrame, nextThread,
                 mutated, foundIn, histVars>>

----------------------------------------------------------------------------
\* DeckRecommender (src/engine/recommender.py)

MaxOpponents == 3    \* rosters in one pool request

\* config.CHAMPION_POOL: the copies of each champion, by cost
ChampionPool == (1 :> 29) @@ (2 :> 22) @@ (3 :> 18) @@ (4 :> 12) @@ (5 :> 10)

\* CHAMPION_POOL.get(cost, 0)
PoolTotal(cost) == IF cost \in DOMAIN ChampionPool THEN ChampionPool[cost]
                                                   ELSE 0

\* The reference data champions.json and meta.json can hold: two data sets
\* that differ in both tables.
DataSets ==
  << [champions |-> << [name |-> "A", cost |-> 5],
                       [name |-> "B", cost |-> 1] >>,
      decks |-> << [name |-> "D1", core_champions |-> <<"A", "B">>] >>],
     [champions |-> << [name |-> "A", cost |-> 4],
                       [name |-> "C", cost |-> 2] >>,
      decks |-> << [name |-> "D2", core_champions |-> <<"A", "C">>],
                   [name |-> "D3", core_champions |-> <<>>] >>],
     [champions |-> << [name |-> "P", cost |-> 1],
                       [name |-> "Q", cost |-> 2],
                       [name |-> "R", cost |-> 3],
                       [name |-> "S", cost |-> 4],
                       [name |-> "T", cost |-> 4],
                       [name |-> "U", cost |-> 5] >>,
      decks |-> << [name |-> "K1", core_champions |-> <<"S", "T", "P">>],
                   [name |-> "K2", core_champions |-> <<"P", "Q">>],
                   [name |-> "K3", core_champions |-> <<"U">>],
                   [name |-> "K4", core_champions |-> <<"Q", "R", "T">>],
                   [name |-> "K5", champions |-> <<"S", "R">>],
                   [name |-> "K6", core_champions |-> <<>>] >>] >>

\* The data sets the files on disk alternate between.
ReloadSets == {1, 2}

\* The rosters a pool request can name: known and unknown champions, and
\* several copies of one.
RosterChoices == { <<>>, <<"A", "A", "A", "A", "X", "A">>, <<"A", "B">>,
                   <<"X">>, <<"B", "X", "A">> }

\* The champions the player owns, in a recommendation request.
MyChoices == { <<>>, <<"A">> }

Names(table) == {table[i].name : i \in DOMAIN table}

\* {c["name"]: c for c in self.champions}: a later entry replaces an
\* earlier one of the same name
ChampMap(table) ==
  [n \in Names(table) |->
     table[CHOOSE i \in DOMAIN table :
             /\ table[i].name = n
             /\ \A j \in DOMAIN table : table[j].name = n => j <= i]]

\* calculate_pool, lines 36-40: pool[name] = CHAMPION_POOL.get(cost, 0)
PoolInit(table) == [n \in Names(table) |-> PoolTotal(ChampMap(table)[n].cost)]

\* The decrement without the clamp.
DecrementUnclamped(n) == n - 1

\* max(0, pool[name] - 1)
Decrement(n) == IF n - 1 > 0 THEN n - 1 ELSE 0

\* calculate_pool, lines 44-46: for name in opp: if name in pool: ...
RECURSIVE TakeRoster(_, _)
TakeRoster(p, opp) ==
  IF opp = <<>> THEN p
  ELSE TakeRoster(IF Head(opp) \in DOMAIN p
                    THEN [p EXCEPT ![Head(opp)] = Decrement(@)]
                    ELSE p,
                  Tail(opp))

\* calculate_pool, line 43: for opp in opponent_champions
RECURSIVE TakeOpponents(_, _)
TakeOpponents(p, opps) ==
  IF opps = <<>> THEN p
  ELSE TakeOpponents(TakeRoster(p, Head(opps)), Tail(opps))

CalculatePool(table, opps) == TakeOpponents(PoolInit(table), opps)

\* get_pool_status, lines 402-413: the entries of the table, grouped by cost
StatusEntry(champ, p) ==
  [name |-> champ.name, cost |-> champ.cost,
   remaining |-> IF champ.name \in DOMAIN p THEN p[champ.name] ELSE 0,
   total |-> PoolTotal(champ.cost)]

PoolStatus(table, p) ==
  [k \in {table[i].cost : i \in DOMAIN table} |->
     SelectSeq([i \in DOMAIN table |-> StatusEntry(table[i], p)],
               LAMBDA e : e.cost = k)]

\* deck.get("core_champions", [])
CoreOf(deck) == IF "core_champions" \in DOMAIN deck THEN deck.core_champions
                                                    ELSE <<>>

\* recommend, lines 89-96: the core champions not owned, deck by deck;
\* a deck without core champions is skipped
RECURSIVE Needed(_, _)
Needed(decks, own) ==
  IF decks = <<>> THEN <<>>
  ELSE SelectSeq(CoreOf(Head(decks)),
                 LAMBDA n : \A i \in DOMAIN own : own[i] # n)
       \o Needed(Tail(decks), own)

\* config.SHOP_ODDS, in hundredths: level -> the rate of each cost 1..5
ShopOdds ==
  (2 :> <<100, 0, 0, 0, 0>>) @@ (3 :> <<75, 25, 0, 0, 0>>) @@
  (4 :> <<55, 30, 15, 0, 0>>) @@ (5 :> <<45, 33, 20, 2, 0>>) @@
  (6 :> <<30, 40, 25, 5, 0>>) @@ (7 :> <<19, 30, 35, 15, 1>>) @@
  (8 :> <<18, 25, 32, 22, 3>>) @@ (9 :> <<15, 20, 25, 30, 10>>) @@
  (10 :> <<5, 10, 20, 40, 25>>)

\* Python's floats, as exact fractions <<numerator, denominator>> in lowest
\* terms, the denominator positive.
RECURSIVE Gcd(_, _)
Gcd(a, b) == IF b = 0 THEN a ELSE Gcd(b, a % b)

Norm(q) ==
  LET g == Gcd(IF q[1] < 0 THEN 0 - q[1] ELSE q[1], q[2])
  IN  <<q[1] \div g, q[2] \div g>>

Zero == <<0, 1>>
One == <<1, 1>>
RMul(p, q) == Norm(<<p[1] * q[1], p[2] * q[2]>>)
RAdd(p, q) == Norm(<<p[1] * q[2] + q[1] * p[2], p[2] * q[2]>>)
RSub(p, q) == Norm(<<p[1] * q[2] - q[1] * p[2], p[2] * q[2]>>)

\* The integer part of n * 10^k / d, by long division (n >= 0).
RECURSIVE Scale(_, _, _)
Scale(n, d, k) ==
  IF k = 0 THEN n \div d
  ELSE (n \div d) * (10 ^ k) + Scale((n % d) * 10, d, k - 1)

\* round(q, k), in units of 10^-k.  An exact tie, which Python decides on
\* the binary value of the float, is taken upward.
RoundTo(q, k) ==
  IF q[1] >= 0 THEN (Scale(q[1], q[2], k + 1) + 5) \div 10
  ELSE 0 - ((Scale(0 - q[1], q[2], k + 1) + 5) \div 10)

\* pool.get(name, 0)
PoolGet(p, name) == IF name \in DOMAIN p THEN p[name] ELSE 0

\* A shop_probability that reads the rate one place to the left
\* (odds[cost - 2], which for cost 1 is Python's odds[-1]).
CostOddsShifted(lvl, cost) == ShopOdds[lvl][IF cost = 1 THEN 5 ELSE cost - 1]

\* shop_probability, line 58: SHOP_ODDS[level][cost - 1]
CostOdds(lvl, cost) == ShopOdds[lvl][cost]

\* lines 64-67: sum(pool.get(c["name"], 0) for c in self.champions
\*                  if c["cost"] == cost)
RECURSIVE TotalInCost(_, _, _)
TotalInCost(table, cost, p) ==
  IF table = <<>> THEN 0
  ELSE (IF Head(table).cost = cost THEN PoolGet(p, Head(table).name) ELSE 0)
       + TotalInCost(Tail(table), cost, p)

\* shop_probability(champion_name, level, pool), on the tables map (the
\* name index) and table (the champion list)
ShopProbability(name, lvl, p, map, table) ==
  IF name \notin DOMAIN map \/ lvl \notin DOMAIN ShopOdds THEN Zero
  ELSE LET cost == map[name].cost
           cost_odds == CostOdds(lvl, cost)
           total_in_cost == TotalInCost(table, cost, p)
       IN  IF cost_odds = 0 THEN Zero
           ELSE IF total_in_cost = 0 THEN Zero
           ELSE RMul(<<cost_odds, 100>>,
                     Norm(<<PoolGet(p, name), total_in_cost>>))

\* set(...) of a list, kept in the order of first occurrence
RECURSIVE Dedup(_)
Dedup(seq) ==
  IF seq = <<>> THEN <<>>
  ELSE <<Head(seq)>> \o SelectSeq(Dedup(Tail(seq)),
                                  LAMBDA n : n # Head(seq))

Elems(seq) == {seq[i] : i \in DOMAIN seq}

\* recommend, lines 101-110: the product of (1 - prob) over the needed
\* champions
RECURSIVE ProbProduct(_, _, _, _, _)
ProbProduct(needed, lvl, p, map, table) ==
  IF needed = <<>> THEN One
  ELSE RMul(RSub(One, ShopProbability(Head(needed), lvl, p, map, table)),
            ProbProduct(Tail(needed), lvl, p, map, table))

\* An acquisition score computed from the product also when nothing is
\* needed.
AcquisitionAlwaysComputed(needed, product) == RSub(One, product)

\* line 113: acquisition_score = 1 - prob_product if needed else 1.0
Acquisition(needed, product) ==
  IF needed # <<>> THEN RSub(One, product) ELSE One

\* A completion score whose weights do not sum to one.
CompletionUnweighted(match_rate, acquisition) ==
  RAdd(match_rate, RMul(acquisition, <<2, 5>>))

\* line 114: completion_score = match_rate * 0.6 + acquisition_score * 0.4
Completion(match_rate, acquisition) ==
  RAdd(RMul(match_rate, <<3, 5>>), RMul(acquisition, <<2, 5>>))

\* A recommend that also skips the decks of one core champion.
SkippedBelowTwo(core) == Len(core) <= 1

\* lines 91-93: if total_needed == 0: continue
Skipped(core) == Len(core) = 0

\* lines 95-127: the entry of one deck, core being its core champions as
\* a set; the fields copied from the deck unchanged (tier, win_rate,
\* pick_rate, synergies, core_items) are left out
DeckEntry(deck, core, own, lvl, p, map, table) ==
  LET owned == {n \in Elems(core) : n \in Elems(own)}
      needed == SelectSeq(core, LAMBDA n : n \notin Elems(own))
      match_rate == Norm(<<Cardinality(owned), Len(core)>>)
      product == ProbProduct(needed, lvl, p, map, table)
  IN  [deck_name |-> IF "name" \in DOMAIN deck THEN deck.name ELSE "Unknown",
       match_rate |-> RoundTo(match_rate, 2),
       owned_champions |-> owned,
       needed_champions |->
         [i \in DOMAIN needed |->
            [name |-> needed[i],
             shop_probability |->
               RoundTo(ShopProbability(needed[i], lvl, p, map, table), 4),
             remaining_in_pool |-> PoolGet(p, needed[i])]],
       completion_score |->
         RoundTo(Completion(match_rate, Acquisition(needed, product)), 4)]

\* lines 89-127: for deck in self.meta_decks
RECURSIVE DeckEntries(_, _, _, _, _, _)
DeckEntries(decks, own, lvl, p, map, table) ==
  IF decks = <<>> THEN <<>>
  ELSE LET core == Dedup(CoreOf(Head(decks)))
       IN  (IF Skipped(core) THEN <<>>
            ELSE <<DeckEntry(Head(decks), core, own, lvl, p, map, table)>>)
           \o DeckEntries(Tail(decks), own, lvl, p, map, table)

\* A sort by ascending score.
KeepsPlaceAscending(a, b) == a.completion_score <= b.completion_score

\* line 129, key=lambda r: -r["completion_score"]: a stays before b
KeepsPlace(a, b) == a.completion_score >= b.completion_score

\* list.sort is stable: an entry goes behind the entries that keep their
\* place before it
RECURSIVE InsertSorted(_, _)
InsertSorted(e, sorted) ==
  IF sorted = <<>> THEN <<e>>
  ELSE IF KeepsPlace(Head(sorted), e)
         THEN <<Head(sorted)>> \o InsertSorted(e, Tail(sorted))
         ELSE <<e>> \o sorted

RECURSIVE SortEntries(_, _)
SortEntries(done, rest) ==
  IF rest = <<>> THEN done
  ELSE SortEntries(InsertSorted(Head(rest), done), Tail(rest))

\* recommend(my_champions, opponent_champions, level)
Recommend(own, opps, lvl, decks, map, table) ==
  SortEntries(<<>>, DeckEntries(decks, own, lvl, CalculatePool(table, opps),
                                map, table))

\* get_shop_advice, lines 157-158: recommended_decks[:3] and [3:]
TopDecks(r) == SubSeq(r, 1, IF Len(r) < 3 THEN Len(r) ELSE 3)
SecondaryDecks(r) == IF Len(r) > 3 THEN SubSeq(r, 4, Len(r)) ELSE <<>>

\* the names in the needed_champions of the decks ds
NeededNames(ds) ==
  UNION {{ds[i].needed_champions[j].name :
            j \in DOMAIN ds[i].needed_champions} : i \in DOMAIN ds}

\* lines 168-173: top_needed[name] is the first top deck that needs name
FirstDeckNeeding(ds, name) ==
  ds[CHOOSE i \in DOMAIN ds :
       /\ \E j \in DOMAIN ds[i].needed_champions :
            ds[i].needed_champions[j].name = name
       /\ \A k \in 1..(i - 1) :
            \A j \in DOMAIN ds[k].needed_champions :
              ds[k].needed_champions[j].name # name]

\* line 185: deck.get("champions", deck.get("core_champions", []))
RosterOf(deck) == IF "champions" \in DOMAIN deck THEN deck.champions
                                                ELSE CoreOf(deck)

\* A carry rule that starts above cost 4.
IsCarryCostAbove(cost) == cost > 4

\* line 190: c.get("cost", 1) >= 4
IsCarryCost(cost) == cost >= 4

\* lines 183-191: carry_champions
CarryChampions(decks, map) ==
  {n \in UNION {Elems(RosterOf(decks[i])) : i \in DOMAIN decks} :
     /\ n \in DOMAIN map
     /\ IsCarryCost(map[n].cost)
     /\ \E i \in DOMAIN decks :
          Len(RosterOf(decks[i])) >= 2 /\ n \in Elems(RosterOf(decks[i]))}

\* lines 152-154: my_counts
Copies(own, name) == Cardinality({i \in DOMAIN own : own[i] = name})

\* lines 197-280: the advice for one shop champion
ShopEntry(name, own, top, secondary, carry, map) ==
  IF name \notin DOMAIN map
    THEN [name |-> name, cost |-> 0, action |-> "pass", priority |-> 0,
          deck_name |-> ""]
  ELSE IF name \in Elems(own)
    THEN IF Copies(own, name) < 3
           THEN [name |-> name, cost |-> map[name].cost,
                 action |-> "upgrade",
                 priority |-> IF name \in NeededNames(top) \/ name \in carry
                                THEN 95
                                ELSE IF name \in carry THEN 85 ELSE 70,
                 deck_name |-> ""]
         ELSE IF Copies(own, name) < 9
           THEN [name |-> name, cost |-> map[name].cost,
                 action |-> "upgrade",
                 priority |-> IF name \in carry THEN 80 ELSE 60,
                 deck_name |-> ""]
         ELSE [name |-> name, cost |-> map[name].cost, action |-> "pass",
               priority |-> 0, deck_name |-> ""]
  ELSE IF name \in NeededNames(top)
    THEN [name |-> name, cost |-> map[name].cost, action |-> "buy",
          priority |-> IF name \in carry THEN 100 ELSE 80,
          deck_name |-> FirstDeckNeeding(top, name).deck_name]
  ELSE IF name \in NeededNames(secondary)
    THEN [name |-> name, cost |-> map[name].cost, action |-> "consider",
          priority |-> 40,
          deck_name |-> FirstDeckNeeding(secondary, name).deck_name]
  ELSE [name |-> name, cost |-> map[name].cost, action |-> "pass",
        priority |-> 0, deck_name |-> ""]

\* line 253: core_missing_count += 1, once for every shop champion that is
\* known, not owned and needed by a top deck
CoreMissingCount(shopL, own, top, map) ==
  Cardinality({i \in DOMAIN shopL :
                 /\ shopL[i] \in DOMAIN map
                 /\ shopL[i] \notin Elems(own)
                 /\ shopL[i] \in NeededNames(top)})

\* line 283: shop_advice.sort(key=lambda x: -x["priority"]), stable
RECURSIVE InsertByPriority(_, _)
InsertByPriority(e, sorted) ==
  IF sorted = <<>> THEN <<e>>
  ELSE IF Head(sorted).priority >= e.priority
         THEN <<Head(sorted)>> \o InsertByPriority(e, Tail(sorted))
         ELSE <<e>> \o sorted

RECURSIVE SortByPriority(_, _)
SortByPriority(done, rest) ==
  IF rest = <<>> THEN done
  ELSE SortByPriority(InsertByPriority(Head(rest), done), Tail(rest))

\* lines 312-317 and 371-376: the costs of the champions the top deck
\* needs, those the name index knows
NeededCosts(top, map) ==
  IF top = <<>> THEN <<>>
  ELSE LET known == SelectSeq(top[1].needed_champions,
                              LAMBDA ni : ni.name \in DOMAIN map)
       IN  [i \in DOMAIN known |-> map[known[i].name].cost]

\* max(set(needed_costs), key=needed_costs.count): the most frequent cost,
\* and of several the one the set yields first, which for these small
\* integers is the smallest
PrimaryCost(costs) ==
  LET count(k) == Cardinality({i \in DOMAIN costs : costs[i] = k})
  IN  CHOOSE k \in Elems(costs) :
        \A j \in Elems(costs) :
          count(j) < count(k) \/ (count(j) = count(k) /\ k <= j)

\* SHOP_ODDS.get(level, [0]*5)[primary_cost - 1] if primary_cost <= 5
\* else 0, in hundredths
OddsAt(lvl, cost) ==
  IF cost <= 5 /\ lvl \in DOMAIN ShopOdds THEN CostOdds(lvl, cost) ELSE 0

\* An interest threshold that 50 gold does not reach.
KeepsInterestAbove(gld) == gld > 50

\* _get_reroll_advice, line 303: if gold >= 50
KeepsInterest(gld) == gld >= 50

\* _get_reroll_advice
RerollAdvice(top, lvl, gld, map, core_missing_count) ==
  IF KeepsInterest(gld)
    THEN [should_reroll |-> FALSE, reason |-> "keep interest"]
  ELSE IF NeededCosts(top, map) = <<>>
    THEN [should_reroll |-> FALSE, reason |-> "nothing needed"]
  ELSE LET cost_odds == OddsAt(lvl, PrimaryCost(NeededCosts(top, map)))
       IN  IF cost_odds < 10
             THEN [should_reroll |-> FALSE, reason |-> "level up"]
           ELSE IF core_missing_count >= 2 /\ gld >= 20 /\ cost_odds >= 15
             THEN [should_reroll |-> TRUE, reason |-> "core missing"]
           ELSE IF gld < 20
             THEN [should_reroll |-> FALSE, reason |-> "gold short"]
           ELSE [should_reroll |-> FALSE, reason |-> "judgement"]

\* A level cap that level 9 does not reach.
AtLevelCapAbove(lvl) == lvl > 9

\* _get_level_advice, line 367: if level >= 9
AtLevelCap(lvl) == lvl >= 9

\* _get_level_advice; next_pct > curr_pct * 1.3 on hundredths
LevelAdvice(lvl, gld, top, map) ==
  IF AtLevelCap(lvl)
    THEN [should_level |-> FALSE, reason |-> "high level"]
  ELSE IF NeededCosts(top, map) = <<>>
    THEN [should_level |-> TRUE, reason |-> "deck complete"]
  ELSE LET primary_cost == PrimaryCost(NeededCosts(top, map))
           curr_pct == OddsAt(lvl, primary_cost)
           next_pct == OddsAt(lvl + 1, primary_cost)
       IN  IF 10 * next_pct > 13 * curr_pct /\ gld >= 20
             THEN [should_level |-> TRUE, reason |-> "odds rise"]
             ELSE [should_level |-> FALSE, reason |-> "odds enough"]

\* get_shop_advice(my_champions, shop_champions, recommended_decks, level,
\* gold, opponent_champions)
GetShopAdvice(own, shopL, r, lvl, gld, decks, map) ==
  LET top == TopDecks(r)
      secondary == SecondaryDecks(r)
      carry == CarryChampions(decks, map)
  IN  [shop_advice |->
         SortByPriority(<<>>,
           [i \in DOMAIN shopL |->
              ShopEntry(shopL[i], own, top, secondary, carry, map)]),
       reroll_advice |->
         RerollAdvice(top, lvl, gld, map,
                      CoreMissingCount(shopL, own, top, map)),
       level_advice |-> LevelAdvice(lvl, gld, top, map)]

----------------------------------------------------------------------------
\* ChampionDetector (src/recognition/detector.py).  Positions and sizes are
\* in pixels; confidences and thresholds are in units of 0.00001.

\* det.get("size", (48, 48))
SizeOf(det) == IF "size" \in DOMAIN det THEN det.size ELSE <<48, 48>>

Max2(a, b) == IF a >= b THEN a ELSE b
Min2(a, b) == IF a <= b THEN a ELSE b

\* lines 65-71: the area of the intersection of the boxes of det and k,
\* 0 unless ix2 > ix1 and iy2 > iy1
Inter(det, k) ==
  LET ix1 == Max2(det.position[1], k.position[1])
      iy1 == Max2(det.position[2], k.position[2])
      ix2 == Min2(det.position[1] + SizeOf(det)[1],
                  k.position[1] + SizeOf(k)[1])
      iy2 == Min2(det.position[2] + SizeOf(det)[2],
                  k.position[2] + SizeOf(k)[2])
  IN  IF ix2 > ix1 /\ iy2 > iy1 THEN (ix2 - ix1) * (iy2 - iy1) ELSE 0

\* line 72: union = w1 * h1 + w2 * h2 - inter
Union(det, k) ==
  SizeOf(det)[1] * SizeOf(det)[2] + SizeOf(k)[1] * SizeOf(k)[2]
    - Inter(det, k)

\* An overlap test that the threshold itself passes.
OverThresholdOrAt(inter, union) == 10 * inter >= 3 * union

\* line 73: inter / union > iou_threshold, with iou_threshold = 0.3.  The
\* quotient of two integers is the double nearest to it, which is the
\* literal 0.3 exactly when the quotient is 3/10.
OverThreshold(inter, union) == 10 * inter > 3 * union

\* lines 60-75: det is suppressed by one of the kept detections
Suppressed(det, keptSoFar) ==
  \E i \in DOMAIN keptSoFar :
    /\ Inter(det, keptSoFar[i]) > 0
    /\ Union(det, keptSoFar[i]) > 0
    /\ OverThreshold(Inter(det, keptSoFar[i]), Union(det, keptSoFar[i]))

\* line 52: detections.sort(key=lambda d: -d["confidence"]), stable
RECURSIVE InsertByConfidence(_, _)
InsertByConfidence(e, sorted) ==
  IF sorted = <<>> THEN <<e>>
  ELSE IF Head(sorted).confidence >= e.confidence
         THEN <<Head(sorted)>> \o InsertByConfidence(e, Tail(sorted))
         ELSE <<e>> \o sorted

RECURSIVE SortByConfidence(_, _)
SortByConfidence(done, rest) ==
  IF rest = <<>> THEN done
  ELSE SortByConfidence(InsertByConfidence(Head(rest), done), Tail(rest))

\* lines 55-78: the greedy pass over the sorted list
RECURSIVE NmsKeep(_, _)
NmsKeep(keptSoFar, rest) ==
  IF rest = <<>> THEN keptSoFar
  ELSE NmsKeep(IF Suppressed(Head(rest), keptSoFar)
                 THEN keptSoFar ELSE Append(keptSoFar, Head(rest)),
               Tail(rest))

\* _nms_boxes(detections)
NmsBoxes(dets) ==
  IF dets = <<>> THEN <<>> ELSE NmsKeep(<<>>, SortByConfidence(<<>>, dets))

\* config.DETECTION_THRESHOLD, the threshold main.py constructs with
DetectionThreshold == 70000

\* The templates loaded and the scales tried for each.
Templates == 2
Scales == 2

\* set_threshold: max(0.1, min(1.0, threshold))
Clamp(v) == Max2(10000, Min2(100000, v))

\* round(best_conf, 4): to the nearest multiple of 0.0001, a half going to
\* the even one
Round4(x) ==
  LET q == x \div 10
      r == x % 10
  IN  IF r < 5 THEN 10 * q
      ELSE IF r > 5 THEN 10 * (q + 1)
      ELSE IF q % 2 = 0 THEN 10 * q ELSE 10 * (q + 1)

\* line 165: result >= self.threshold
Reaches(score, thr) == score >= thr

\* lines 165-171: best_conf after a scale whose best location scores score
BestAfter(best, score, thr) ==
  IF Reaches(score, thr) /\ score > best THEN score ELSE best

\* line 173: best_loc and best_conf >= self.threshold; best_loc is set
\* exactly when a score above 0.0 replaced best_conf
Emits(best, thr) == best > 0 /\ best >= thr

\* lines 175-184: the detection of template t, found where the template
\* lies in the frame
Detection(t, best) ==
  [name |-> IF t = 1 THEN "a" ELSE "b",
   position |-> IF t = 1 THEN <<0, 0>> ELSE <<7, 0>>,
   size |-> <<13, 13>>,
   confidence |-> Round4(best)]

NoSeen == [champs |-> {}, decks |-> {}, maps |-> {}]
NoResult == [none |-> TRUE]

\* No request has been made: the defaults of the signatures.
NoCall ==
  /\ level = 7
  /\ gold = 50
  /\ my = <<>>
  /\ shop = <<>>
  /\ query = ""
  /\ prob = NoResult
  /\ recs = NoResult
  /\ advice = NoResult

\* The detector at rest: no deduplication has been asked for.
NoDetection ==
  /\ dpc = "idle"
  /\ tmpl = 1
  /\ scale = 1
  /\ best_conf = 0
  /\ boxes = <<>>
  /\ kept = <<>>
  /\ used = {}

DetectorIdle ==
  /\ threshold = DetectionThreshold
  /\ NoDetection

TablesInit(ds) ==
  /\ NoCall
  /\ disk \in ds
  /\ champions = DataSets[disk].champions
  /\ meta_decks = DataSets[disk].decks
  /\ champ_map = ChampMap(DataSets[disk].champions)
  /\ epc = [c \in Req |-> "idle"]
  /\ seen = [c \in Req |-> NoSeen]
  /\ todo = [c \in Req |-> <<>>]
  /\ opponents = <<>>
  /\ pool = NoResult
  /\ status = NoResult

EngineInit(ds) == TablesInit(ds) /\ DetectorIdle

captureAll == <<captureVars, loopVars, reqVars, envVars, histVars>>

\* The call of c reads self.champions, self.meta_decks, self._champ_map.
SeeChampions(c) == [seen EXCEPT ![c].champs = @ \cup {champions}]
SeeDecks(c) == [seen EXCEPT ![c].decks = @ \cup {meta_decks}]
SeeMap(c) == [seen EXCEPT ![c].maps = @ \cup {champ_map}]

\* reload_data, line 26: self.champions = _load_json(CHAMPIONS_JSON) or []
ReloadChampions(c) ==
  /\ epc[c] = "idle"
  /\ champions' = DataSets[disk].champions
  /\ epc' = [epc EXCEPT ![c] = "rl_decks"]
  /\ UNCHANGED <<captureAll, detectVars, callVars, meta_decks, champ_map, disk, seen, todo,
                 opponents, pool, status>>

\* line 27: self.meta_decks = (_load_json(META_JSON) or {}).get("decks", [])
ReloadDecks(c) ==
  /\ epc[c] = "rl_decks"
  /\ meta_decks' = DataSets[disk].decks
  /\ epc' = [epc EXCEPT ![c] = "rl_map"]
  /\ UNCHANGED <<captureAll, detectVars, callVars, champions, champ_map, disk, seen, todo,
                 opponents, pool, status>>

\* line 28: self._champ_map = {c["name"]: c for c in self.champions}
ReloadMap(c) ==
  /\ epc[c] = "rl_map"
  /\ champ_map' = ChampMap(champions)
  /\ epc' = [epc EXCEPT ![c] = "idle"]
  /\ UNCHANGED <<captureAll, detectVars, callVars, champions, meta_decks, disk, seen, todo,
                 opponents, pool, status>>

\* The data files are replaced by another data set.
WriteFiles ==
  /\ \E d \in ReloadSets \ {disk} : disk' = d
  /\ UNCHANGED <<captureAll, detectVars, callVars, champions, meta_decks, champ_map, epc, seen,
                 todo, opponents, pool, status>>

\* recommend, line 85: pool = self.calculate_pool(opponent_champions)
RecommendPool(c) ==
  /\ epc[c] = "idle"
  /\ seen' = SeeChampions(c)
  /\ epc' = [epc EXCEPT ![c] = "rec_decks"]
  /\ UNCHANGED <<captureAll, detectVars, callVars, champions, meta_decks, champ_map, disk, todo,
                 opponents, pool, status>>

\* line 89: for deck in self.meta_decks, with the champions to look up
RecommendDecks(c) ==
  /\ epc[c] = "rec_decks"
  /\ seen' = SeeDecks(c)
  /\ \E own \in MyChoices :
       todo' = [todo EXCEPT ![c] = Needed(meta_decks, own)]
  /\ epc' = [epc EXCEPT ![c] = "rec_prob"]
  /\ UNCHANGED <<captureAll, detectVars, callVars, champions, meta_decks, champ_map, disk,
                 opponents, pool, status>>

\* line 103, shop_probability line 53: champ = self._champ_map.get(name);
\* an unknown champion returns 0.0; after the last champion recommend
\* returns
RecommendProb(c) ==
  /\ epc[c] = "rec_prob"
  /\ IF todo[c] = <<>>
       THEN /\ epc' = [epc EXCEPT ![c] = "idle"]
            /\ seen' = [seen EXCEPT ![c] = NoSeen]
            /\ UNCHANGED todo
       ELSE /\ seen' = SeeMap(c)
            /\ IF Head(todo[c]) \in DOMAIN champ_map
                 THEN /\ epc' = [epc EXCEPT ![c] = "rec_sum"]
                      /\ UNCHANGED todo
                 ELSE /\ todo' = [todo EXCEPT ![c] = Tail(@)]
                      /\ UNCHANGED epc
  /\ UNCHANGED <<captureAll, detectVars, callVars, champions, meta_decks, champ_map, disk,
                 opponents, pool, status>>

\* shop_probability lines 64-67: the sum over self.champions
RecommendSum(c) ==
  /\ epc[c] = "rec_sum"
  /\ seen' = SeeChampions(c)
  /\ todo' = [todo EXCEPT ![c] = Tail(@)]
  /\ epc' = [epc EXCEPT ![c] = "rec_prob"]
  /\ UNCHANGED <<captureAll, detectVars, callVars, champions, meta_decks, champ_map, disk,
                 opponents, pool, status>>

\* get_shop_advice, line 149: pool = self.calculate_pool(...)
AdvicePool(c) ==
  /\ epc[c] = "idle"
  /\ seen' = SeeChampions(c)
  /\ epc' = [epc EXCEPT ![c] = "sa_carry"]
  /\ UNCHANGED <<captureAll, detectVars, callVars, champions, meta_decks, champ_map, disk, todo,
                 opponents, pool, status>>

\* lines 184-191: the carries, from self.meta_decks and self._champ_map
AdviceCarry(c) ==
  /\ epc[c] = "sa_carry"
  /\ seen' = [SeeDecks(c) EXCEPT ![c].maps = @ \cup {champ_map}]
  /\ epc' = [epc EXCEPT ![c] = "sa_shop"]
  /\ UNCHANGED <<captureAll, detectVars, callVars, champions, meta_decks, champ_map, disk, todo,
                 opponents, pool, status>>

\* lines 197-198: champ = self._champ_map.get(shop_name)
AdviceShop(c) ==
  /\ epc[c] \in {"sa_shop", "sa_end"}
  /\ IF epc[c] = "sa_shop"
       THEN /\ seen' = SeeMap(c)
            /\ epc' = [epc EXCEPT ![c] = "sa_end"]
       ELSE /\ seen' = [seen EXCEPT ![c] = NoSeen]
            /\ epc' = [epc EXCEPT ![c] = "idle"]
  /\ UNCHANGED <<captureAll, detectVars, callVars, champions, meta_decks, champ_map, disk, todo,
                 opponents, pool, status>>

\* A caller puts one more roster into its pool request.
AddRoster ==
  /\ Len(opponents) < MaxOpponents
  /\ \A c \in Req : epc[c] = "idle"
  /\ \E r \in RosterChoices : opponents' = Append(opponents, r)
  /\ pool' = NoResult
  /\ status' = NoResult
  /\ UNCHANGED <<captureAll, detectVars, callVars, champions, meta_decks, champ_map, disk, epc,
                 seen, todo>>

\* calculate_pool(opponents)
PoolCall(c) ==
  /\ epc[c] = "idle"
  /\ pool' = CalculatePool(champions, opponents)
  /\ UNCHANGED <<captureAll, detectVars, callVars, champions, meta_decks, champ_map, disk, epc,
                 seen, todo, opponents, status>>

\* get_pool_status, line 401: pool = self.calculate_pool(...)
StatusPool(c) ==
  /\ epc[c] = "idle"
  /\ pool' = CalculatePool(champions, opponents)
  /\ status' = NoResult
  /\ seen' = SeeChampions(c)
  /\ epc' = [epc EXCEPT ![c] = "ps_iter"]
  /\ UNCHANGED <<captureAll, detectVars, callVars, champions, meta_decks, champ_map, disk, todo,
                 opponents>>

\* lines 403-413: for champ in self.champions
StatusIter(c) ==
  /\ epc[c] \in {"ps_iter", "ps_end"}
  /\ IF epc[c] = "ps_iter"
       THEN /\ status' = PoolStatus(champions, pool)
            /\ seen' = SeeChampions(c)
            /\ epc' = [epc EXCEPT ![c] = "ps_end"]
       ELSE /\ seen' = [seen EXCEPT ![c] = NoSeen]
            /\ epc' = [epc EXCEPT ![c] = "idle"]
            /\ UNCHANGED status
  /\ UNCHANGED <<captureAll, detectVars, callVars, champions, meta_decks, champ_map, disk, todo,
                 opponents, pool>>

\* The inputs of a request: levels inside and outside SHOP_ODDS, gold
\* around the thresholds 20 and 50, owned lists with copies and with an
\* unknown name, shops, and opponents that hold copies.
LevelChoices == {1, 4, 7, 8, 9, 10, 11}
GoldChoices == {0, 19, 20, 30, 49, 50, 60}
OwnedChoices == { <<>>, <<"X">>, <<"P", "P">>, <<"S", "S">>, <<"T">>,
                  <<"S", "T", "P">>, <<"P", "P", "P", "Q">>, <<"U">>,
                  <<"S", "P">> }
ShopChoices == { <<>>, <<"P", "S", "U", "X", "R">>, <<"S", "T">>,
                 <<"U", "P">>, <<"Q", "R", "T">> }
OpponentChoices ==
  { <<>>, << <<"S", "S", "S", "S">> >>,
    << <<"U", "U", "U", "U">>, <<"U", "U", "U", "U">>,
       <<"U", "U", "U", "U">> >>,
    << <<"P", "X">>, <<"Q", "Q">> >> }

\* The tables of data set d are loaded and a request has been received.
RequestInit(d, levels, golds, owns, shops) ==
  /\ disk = d
  /\ champions = DataSets[d].champions
  /\ meta_decks = DataSets[d].decks
  /\ champ_map = ChampMap(DataSets[d].champions)
  /\ epc = [c \in Req |-> "idle"]
  /\ seen = [c \in Req |-> NoSeen]
  /\ todo = [c \in Req |-> <<>>]
  /\ opponents \in OpponentChoices
  /\ pool = NoResult
  /\ status = NoResult
  /\ level \in levels
  /\ gold \in golds
  /\ my \in owns
  /\ shop \in shops
  /\ query = ""
  /\ prob = NoResult
  /\ recs = NoResult
  /\ advice = NoResult
  /\ DetectorIdle

\* shop_probability(name, level, pool) on the pool of the request
ProbCall(c) ==
  /\ epc[c] = "idle"
  /\ \E n \in Names(champions) \cup {"X"} :
       /\ query' = n
       /\ pool' = CalculatePool(champions, opponents)
       /\ prob' = ShopProbability(n, level, pool', champ_map, champions)
  /\ UNCHANGED <<captureAll, detectVars, champions, meta_decks, champ_map, disk, epc,
                 seen, todo, opponents, status, level, gold, my, shop, recs,
                 advice>>

\* api_recommend: recommender.recommend(my_champs, opponents, level)
RecommendCall(c) ==
  /\ epc[c] = "idle"
  /\ recs' = Recommend(my, opponents, level, meta_decks, champ_map,
                       champions)
  /\ advice' = NoResult
  /\ UNCHANGED <<captureAll, detectVars, champions, meta_decks, champ_map, disk, epc,
                 seen, todo, opponents, pool, status, level, gold, my, shop,
                 query, prob>>

\* api_shop_advice: all_champs = list(set(my_champs)); recs =
\* recommend(all_champs, opponents, level) if all_champs else []; then
\* get_shop_advice(my_champs, shop_champs, recs, level, gold, opponents)
ShopAdviceCall(c) ==
  /\ epc[c] = "idle"
  /\ recs' = IF my = <<>> THEN <<>>
             ELSE Recommend(Dedup(my), opponents, level, meta_decks,
                            champ_map, champions)
  /\ advice' = GetShopAdvice(my, shop, recs', level, gold, meta_decks,
                             champ_map)
  /\ UNCHANGED <<captureAll, detectVars, champions, meta_decks, champ_map, disk, epc,
                 seen, todo, opponents, pool, status, level, gold, my, shop,
                 query, prob>>

\* The candidate detections of a deduplication: boxes of 13 x 13 pixels
\* side by side and shifted by 6, 7 and 13 pixels (overlaps of 7/19, 3/10
\* and none), a box of 10 x 10 inside the first, and a box far away.
Det(n, x, y, w, h, conf) ==
  [name |-> n, position |-> <<x, y>>, size |-> <<w, h>>,
   confidence |-> conf]

DetChoices ==
  { Det("a", 0, 0, 13, 13, 90000), Det("b", 7, 0, 13, 13, 80000),
    Det("c", 6, 0, 13, 13, 95000), Det("d", 13, 0, 13, 13, 80000),
    Det("e", 0, 0, 10, 10, 90000), Det("f", 40, 40, 10, 10, 70000) }

BoxChoices ==
  {<<>>} \cup {<<d>> : d \in DetChoices}
         \cup {<<d, e>> : d, e \in DetChoices}
         \cup {<<d, e, f>> : d, e, f \in DetChoices}

\* _nms_boxes(all_detections): the list is sorted in place, unless it is
\* empty, and the kept detections are returned
NmsCall(c) ==
  /\ epc[c] = "idle"
  /\ dpc \in {"idle", "returned"}
  /\ boxes' = IF boxes = <<>> THEN <<>> ELSE SortByConfidence(<<>>, boxes)
  /\ kept' = NmsBoxes(boxes)
  /\ dpc' = "returned"
  /\ UNCHANGED <<captureAll, callVars, champions, meta_decks, champ_map,
                 disk, epc, seen, todo, opponents, pool, status, threshold,
                 tmpl, scale, best_conf, used>>

\* The thresholds a detector is constructed with (--threshold, any number)
\* and the values POST /api/settings passes to set_threshold.
ConstructedChoices == {DetectionThreshold, 70004}
SettingChoices == {5000, 30000, 70004, 150000}

\* The best score matchTemplate finds for one template at one scale.
ScoreChoices == {-20000, 0, 30002, 69996, 70004, 100000}

\* The detector is constructed with one of the thresholds and no
\* detection has been asked for.
DetectorInit(ts) ==
  /\ threshold \in ts
  /\ NoDetection

\* api_settings: detector.set_threshold(float(data["threshold"]))
SetThreshold(c, v) ==
  /\ epc[c] = "idle"
  /\ threshold' = Clamp(v)
  /\ UNCHANGED <<captureAll, callVars, champions, meta_decks, champ_map,
                 disk, epc, seen, todo, opponents, pool, status, dpc, tmpl,
                 scale, best_conf, boxes, kept, used>>

\* detect_champions is called (by the capture loop, screen.py line 190):
\* all_detections = [], and the first template begins with best_conf = 0.0
DetectBegin ==
  /\ dpc \in {"idle", "returned"}
  /\ dpc' = "scan"
  /\ tmpl' = 1
  /\ scale' = 1
  /\ best_conf' = 0
  /\ boxes' = <<>>
  /\ kept' = <<>>
  /\ used' = {}
  /\ UNCHANGED <<captureAll, callVars, champions, meta_decks, champ_map,
                 disk, epc, seen, todo, opponents, pool, status, threshold>>

\* lines 147-171, one scale of one template: the locations where the
\* result reaches self.threshold, and the best of them so far
DetectScale ==
  /\ dpc = "scan"
  /\ \E score \in ScoreChoices :
       best_conf' = BestAfter(best_conf, score, threshold)
  /\ used' = used \cup {threshold}
  /\ IF scale < Scales
       THEN scale' = scale + 1 /\ UNCHANGED dpc
       ELSE dpc' = "emit" /\ UNCHANGED scale
  /\ UNCHANGED <<captureAll, callVars, champions, meta_decks, champ_map,
                 disk, epc, seen, todo, opponents, pool, status, threshold,
                 tmpl, boxes, kept>>

\* lines 173-184: if best_loc and best_conf >= self.threshold, the
\* detection is appended with its confidence rounded; then the next
\* template, or the deduplication
DetectEmit ==
  /\ dpc = "emit"
  /\ boxes' = IF Emits(best_conf, threshold)
                THEN Append(boxes, Detection(tmpl, best_conf))
                ELSE boxes
  /\ used' = used \cup {threshold}
  /\ best_conf' = 0
  /\ scale' = 1
  /\ IF tmpl < Templates
       THEN tmpl' = tmpl + 1 /\ dpc' = "scan"
       ELSE dpc' = "nms" /\ UNCHANGED tmpl
  /\ UNCHANGED <<captureAll, callVars, champions, meta_decks, champ_map,
                 disk, epc, seen, todo, opponents, pool, status, threshold,
                 kept>>

\* line 187: return _nms_boxes(all_detections)
DetectReturn ==
  /\ dpc = "nms"
  /\ boxes' = IF boxes = <<>> THEN <<>> ELSE SortByConfidence(<<>>, boxes)
  /\ kept' = NmsBoxes(boxes)
  /\ dpc' = "returned"
  /\ UNCHANGED <<captureAll, callVars, champions, meta_decks, champ_map,
                 disk, epc, seen, todo, opponents, pool, status, threshold,
                 tmpl, scale, best_conf, used>>

----------------------------------------------------------------------------
Start(c) ==
  \/ StartCheck(c) \/ StartSet(c) \/ StartReset(c) \/ StartNew(c)
  \/ StartRun(c)

Stop(c) == StopClear(c) \/ StopJoin(c)

Lifecycle(c) == Start(c) \/ Stop(c)

Loop(t) ==
  \/ LoopCheck(t) \/ LoopResolve(t) \/ LoopCache(t) \/ LoopPubFrame(t)
  \/ LoopPubRest(t) \/ LoopPubWriteCount(t) \/ LoopFps(t)
  \/ LoopCallback(t) \/ LoopSleep(t)

\* The capture with its readers and callbacks: r1 starts and stops it, r2
\* reads it and registers callbacks; the game window stays where it is.
Init == CaptureInit(BOOLEAN, {1}) /\ EngineInit({1})

Next ==
  \/ Lifecycle("r1")
  \/ LatestFrame("r2") \/ LatestDetections("r2") \/ Fps("r2")
  \/ LastCaptureTime("r2") \/ GetStatus("r2") \/ Drop("r2")
  \/ \E t \in Thr : Loop(t)

Spec == Init /\ [][Next]_vars

\* The callbacks: r1 starts and stops the capture, r2 registers callbacks
\* that return or raise.
InitCallbacks == CaptureInit({TRUE}, {1}) /\ EngineInit({1})

NextCallbacks ==
  \/ Lifecycle("r1")
  \/ \E k \in {"ok", "fault"} : OnFrame("r2", k)
  \/ \E t \in Thr : Loop(t)

SpecCallbacks == InitCallbacks /\ [][NextCallbacks]_vars

\* The frame a reader holds: r1 starts the capture, r2 registers callbacks
\* that return or draw on the frame, and reads the latest frame.
InitAlias == CaptureInit({TRUE}, {1}) /\ EngineInit({1})

NextAlias ==
  \/ Start("r1")
  \/ \E k \in {"ok", "mutate"} : OnFrame("r2", k)
  \/ LatestFrame("r2") \/ Drop("r2")
  \/ \E t \in Thr : Loop(t)

SpecAlias == InitAlias /\ [][NextAlias]_vars

\* The lifecycle: both request contexts start and stop the capture.
InitLife == CaptureInit({TRUE}, {1}) /\ EngineInit({1})

NextLife ==
  \/ \E c \in Req : Lifecycle(c)
  \/ \E t \in Thr : Loop(t)

SpecLife == InitLife /\ [][NextLife]_vars

\* The window cache: r1 starts the capture, r2 calls refresh_window, and
\* the game window moves.
InitWindow ==
  CaptureInit({TRUE}, WinRects \cup {NoRegion}) /\ EngineInit({1})

NextWindow ==
  \/ Start("r1")
  \/ RefreshWindow("r2")
  \/ MoveWindow
  \/ \E t \in Thr : Loop(t)

SpecWindow == InitWindow /\ [][NextWindow]_vars

\* The recommender's tables: both request contexts call recommend,
\* get_shop_advice, get_pool_status and reload_data, and the data files
\* change.
InitReload == CaptureInit({TRUE}, {1}) /\ EngineInit(ReloadSets)

NextReload ==
  \/ \E c \in Req :
       \/ ReloadChampions(c) \/ ReloadDecks(c) \/ ReloadMap(c)
       \/ RecommendPool(c) \/ RecommendDecks(c) \/ RecommendProb(c)
       \/ RecommendSum(c)
       \/ AdvicePool(c) \/ AdviceCarry(c) \/ AdviceShop(c)
       \/ StatusPool(c) \/ StatusIter(c)
  \/ WriteFiles

SpecReload == InitReload /\ [][NextReload]_vars

\* The pool: one context builds a request and calls calculate_pool and
\* get_pool_status on the tables loaded at construction.
InitPool == CaptureInit({TRUE}, {1}) /\ EngineInit(ReloadSets)

NextPool ==
  \/ AddRoster
  \/ PoolCall("r1")
  \/ StatusPool("r1") \/ StatusIter("r1")

SpecPool == InitPool /\ [][NextPool]_vars

\* The shop probability: a request with its level and its opponents, and
\* shop_probability called for the known champions and an unknown name.
InitShop ==
  /\ CaptureInit({TRUE}, {1})
  /\ RequestInit(3, LevelChoices, {50}, {<<>>}, {<<>>})

NextShop == ProbCall("r1")

SpecShop == InitShop /\ [][NextShop]_vars

\* The recommendation: a request with its level, owned champions and
\* opponents, answered by recommend.
InitRecommend ==
  /\ CaptureInit({TRUE}, {1})
  /\ RequestInit(3, LevelChoices, {50}, OwnedChoices, {<<>>})

NextRecommend == RecommendCall("r1")

SpecRecommend == InitRecommend /\ [][NextRecommend]_vars

\* The advice: a request with its level, gold, owned champions, shop and
\* opponents, answered by recommend and by the shop advice.
InitAdvice ==
  /\ CaptureInit({TRUE}, {1})
  /\ RequestInit(3, LevelChoices, GoldChoices, OwnedChoices, ShopChoices)

NextAdvice == RecommendCall("r1") \/ ShopAdviceCall("r1")

SpecAdvice == InitAdvice /\ [][NextAdvice]_vars

\* The deduplication: _nms_boxes called on a list of candidates.
InitNms ==
  /\ CaptureInit({TRUE}, {1})
  /\ TablesInit({1})
  /\ threshold = DetectionThreshold
  /\ dpc = "idle"
  /\ tmpl = 1
  /\ scale = 1
  /\ best_conf = 0
  /\ boxes \in BoxChoices
  /\ kept = <<>>
  /\ used = {}

NextNms == NmsCall("r1")

SpecNms == InitNms /\ [][NextNms]_vars

\* The detection: a detector constructed with a threshold, detection calls
\* one after the other, and set_threshold between two calls.
InitDetect ==
  /\ CaptureInit({TRUE}, {1})
  /\ TablesInit({1})
  /\ DetectorInit(ConstructedChoices)

DetectChampions ==
  \/ DetectBegin \/ DetectScale \/ DetectEmit \/ DetectReturn

NextDetect ==
  \/ DetectChampions
  \/ \E v \in SettingChoices :
       dpc \in {"idle", "returned"} /\ SetThreshold("r1", v)

SpecDetect == InitDetect /\ [][NextDetect]_vars

\* The threshold: the same, with set_threshold called at any moment of a
\* detection call.
NextThreshold ==
  \/ DetectChampions
  \/ \E v \in SettingChoices : SetThreshold("r1", v)

SpecThreshold == InitDetect /\ [][NextThreshold]_vars

----------------------------------------------------------------------------
\* Properties

\* C1: start() on a capture that is Running is a no-op.  A context that is
\* inside start() while the capture is Running through another context's
\* start() changes nothing: it creates no loop thread and resets no
\* counter.
C1_StartOnRunningIsNoOp ==
  [][\A c \in Req :
       (/\ pc[c] \in StartPcs
        /\ pc'[c] # pc[c]
        /\ running
        /\ startedBy # c)
       => UNCHANGED <<captureVars, loopVars, envVars>>]_vars

\* C2: a loop that was alive when stop() ran leaves _loop at its next check
\* of the Running flag.
C2_StoppedLoopExitsAtNextCheck ==
  [][\A t \in Thr :
       (t \in stopSeen /\ tpc[t] = "check" /\ tpc'[t] # "check")
       => tpc'[t] = "done"]_vars

\* C3: whenever the lock is free (the states a reader can observe), the
\* stored detections are the ones computed from the stored frame in the
\* cycle that grabbed it, and the stored timestamp is that cycle's.
C3_PublishedTogether ==
  lock = Free =>
    /\ latest_detections = Computed(latest_frame)
    /\ last_capture_time = latest_frame

C3_Witness ==
  /\ lock = Free
  /\ latest_frame = MaxFrames
  /\ latest_detections = Detect(MaxFrames)
  /\ pc["r2"] = "hold"
  /\ ret["r2"].op = "get_status"
  /\ ret["r2"].detected_count = 1
  /\ ret["r2"].frame_count >= 2

\* C4: a cycle in which capture_once returns no frame changes nothing of
\* the published state, computes no detections, invokes no callback, goes
\* to sleep, and after the sleep the loop checks the flag and, Running,
\* begins the next cycle.
C4_FailedAcquisitionSkips ==
  [][\A t \in Thr :
       /\ (/\ tpc[t] \in {"resolve", "cache", "sleep"}
           /\ tpc'[t] # tpc[t]
           /\ frame[t] = NoFrame
           /\ frame'[t] = NoFrame)
          => /\ UNCHANGED <<published, detections, detFailed, foundIn,
                            invoked, mutated>>
             /\ tpc[t] = "resolve" => tpc'[t] \in {"cache", "sleep"}
             /\ tpc[t] = "cache" => tpc'[t] = "sleep"
             /\ tpc[t] = "sleep" => tpc'[t] = "check"
       /\ (tpc[t] = "check" /\ tpc'[t] # "check" /\ running)
          => tpc'[t] = "resolve"]_vars

C4_Witness ==
  \E t \in Thr :
    /\ tpc[t] = "sleep"
    /\ frame[t] = NoFrame
    /\ running
    /\ latest_frame # NoFrame
    /\ frame_count >= 1
    /\ Len(callbacks) >= 1

\* C5: a cycle whose detector raised publishes its frame with an empty
\* detection list, increments the frame counter, invokes the callbacks and
\* goes to sleep and on to the next check; it never leaves _loop.
C5_DetectorFailureStillPublishes ==
  [][\A t \in Thr :
       /\ (tpc[t] = "cache" /\ detFailed'[t])
          => /\ tpc'[t] = "pub_frame"
             /\ frame'[t] # NoFrame
             /\ detections'[t] = <<>>
       /\ (detFailed[t] /\ tpc[t] = "pub_frame" /\ tpc'[t] # "pub_frame")
          => tpc'[t] = "pub_rest" /\ latest_frame' = frame[t]
       /\ (detFailed[t] /\ tpc[t] = "pub_rest" /\ tpc'[t] # "pub_rest")
          => /\ tpc'[t] = "pub_wcount"
             /\ latest_detections' = <<>>
             /\ latest_frame = frame[t]
       /\ (detFailed[t] /\ tpc[t] = "pub_wcount" /\ tpc'[t] # "pub_wcount")
          => tpc'[t] = "fps" /\ frame_count' = cnt[t] + 1
       /\ (detFailed[t] /\ tpc[t] = "fps" /\ tpc'[t] # "fps")
          => tpc'[t] = "cb"
       /\ (detFailed[t] /\ tpc[t] = "cb" /\ tpc'[t] # "cb")
          => tpc'[t] = "sleep" /\ Len(invoked'[t]) = Len(callbacks)
       /\ (detFailed[t] /\ tpc[t] = "sleep" /\ tpc'[t] # "sleep")
          => tpc'[t] = "check"]_vars

C5_Witness ==
  \E t \in Thr :
    /\ tpc[t] = "sleep"
    /\ detFailed[t]
    /\ latest_frame = frame[t]
    /\ latest_detections = <<>>
    /\ frame_count >= 1
    /\ Len(invoked[t]) >= 1

\* C6: when the callback loop of a published frame ends, every registered
\* callback has been invoked exactly once with that frame, in registration
\* order, whether or not one of them raised, and the loop goes on to sleep.
C6_CallbacksOncePerFrameInOrder ==
  [][\A t \in Thr :
       (tpc[t] = "cb" /\ tpc'[t] # "cb")
       => /\ tpc'[t] = "sleep"
          /\ frame[t] # NoFrame
          /\ invoked'[t] = [i \in 1..Len(callbacks) |-> <<i, frame[t]>>]]_vars

C6_Witness ==
  \E t \in Thr :
    /\ tpc[t] = "sleep"
    /\ Len(callbacks) = MaxCallbacks
    /\ callbacks[1] = "fault"
    /\ invoked[t] = [i \in 1..MaxCallbacks |-> <<i, frame[t]>>]

\* C7: a cycle that began after refresh_window() returned, with no window
\* discovery since, finds no cached rectangle and discovers the window.
C7_RefreshForcesRediscovery ==
  [][\A t \in Thr :
       (/\ tpc[t] = "resolve"
        /\ tpc'[t] = "cache"
        /\ sinceRefresh[t]
        /\ refreshPending)
       => window_region = NoRegion]_vars

\* C8: all the tables a call of recommend, get_shop_advice or
\* get_pool_status has read so far are the tables of one data set.
C8_ReloadIsAtomic ==
  \A c \in Req :
    \E d \in DOMAIN DataSets :
      /\ seen[c].champs \subseteq {DataSets[d].champions}
      /\ seen[c].decks \subseteq {DataSets[d].decks}
      /\ seen[c].maps \subseteq {ChampMap(DataSets[d].champions)}

\* C9: the frame a caller of latest_frame holds has the content it had when
\* the read returned.
C9_ReadsAreSnapshots ==
  \A c \in Req :
    (pc[c] = "hold" /\ ret[c].op = "latest_frame" /\ ret[c].ref # NoFrame)
    => ret[c].content = (ret[c].ref \in mutated)

\* The occurrences of name n over all rosters.
Occurrences(n, opps) ==
  Cardinality({ij \in UNION {{<<i, j>> : j \in DOMAIN opps[i]} :
                               i \in DOMAIN opps} :
                 opps[ij[1]][ij[2]] = n})

Remaining(total, taken) == IF total - taken > 0 THEN total - taken ELSE 0

\* C10: calculate_pool gives every champion of the table, and only those,
\* remaining = max(0, total of its cost - occurrences of its name over all
\* rosters); get_pool_status reports the same remaining with the total,
\* and remaining = total when there are no opponents.
C10_PoolRemaining ==
  /\ pool # NoResult =>
       /\ DOMAIN pool = Names(champions)
       /\ \A i \in DOMAIN champions :
            pool[champions[i].name] =
              Remaining(PoolTotal(champions[i].cost),
                        Occurrences(champions[i].name, opponents))
  /\ status # NoResult =>
       \A i \in DOMAIN champions :
         \E j \in DOMAIN status[champions[i].cost] :
           LET e == status[champions[i].cost][j] IN
             /\ e.name = champions[i].name
             /\ e.total = PoolTotal(champions[i].cost)
             /\ e.remaining = Remaining(e.total,
                                        Occurrences(e.name, opponents))
             /\ opponents = <<>> => e.remaining = e.total

C10_Witness ==
  /\ pool # NoResult
  /\ status # NoResult
  /\ Occurrences("A", opponents) > PoolTotal(5)
  /\ Occurrences("X", opponents) >= 1
  /\ Occurrences("B", opponents) >= 1
  /\ champions = DataSets[1].champions
  /\ pool["A"] = 0
  /\ pool["B"] = PoolTotal(1) - Occurrences("B", opponents)

\* The copies left of the champions in names, in pool p.
RECURSIVE SumPool(_, _)
SumPool(names, p) ==
  IF names = {} THEN 0
  ELSE LET n == CHOOSE m \in names : TRUE
       IN  p[n] + SumPool(names \ {n}, p)

CostIn(table, name) ==
  table[CHOOSE i \in DOMAIN table : table[i].name = name].cost

\* C11: shop_probability is 0 when the level is outside 2..10, the name is
\* unknown, the rate of the champion's cost at the level is 0 or no copy
\* of that cost is left in the pool; otherwise it is rate x remaining of
\* the champion / remaining of its cost.
C11_ShopProbability ==
  prob # NoResult =>
    LET cost == CostIn(champions, query)
        rate == ShopOdds[level][cost]
        tier == {n \in Names(champions) : CostIn(champions, n) = cost}
    IN  IF \/ level \notin 2..10
           \/ query \notin Names(champions)
           \/ rate = 0
           \/ SumPool(tier, pool) = 0
          THEN prob = <<0, 1>>
          ELSE /\ prob[2] > 0
               /\ prob[1] * 100 * SumPool(tier, pool)
                    = rate * pool[query] * prob[2]

C11_Witness ==
  /\ prob # NoResult
  /\ prob = <<3, 50>>
  /\ query = "S"
  /\ level = 7
  /\ pool # NoResult
  /\ pool["S"] = 8
  /\ pool["T"] = 12

\* The meta deck an entry of the recommendations was made from, and
\* whether all its core champions are owned.
DeckNamed(n) ==
  meta_decks[CHOOSE d \in DOMAIN meta_decks : meta_decks[d].name = n]

AllCoreOwned(e) ==
  \A j \in DOMAIN DeckNamed(e.deck_name).core_champions :
    \E k \in DOMAIN my : my[k] = DeckNamed(e.deck_name).core_champions[j]

\* C12, as stated: a deck whose core champions are all owned gets the
\* completion score 0.6.
C12_AllOwnedScoresSixTenths ==
  recs # NoResult =>
    \A i \in DOMAIN recs :
      AllCoreOwned(recs[i]) => recs[i].completion_score = 6000

\* C12, amended: a deck whose core champions are all owned has match rate
\* 1.0 and nothing needed, and gets the completion score 1.0 (0.6 x 1.0
\* for the match rate plus 0.4 x 1.0 for the acquisition score).
C12_AllOwnedScoresOne ==
  recs # NoResult =>
    \A i \in DOMAIN recs :
      AllCoreOwned(recs[i]) =>
        /\ recs[i].match_rate = 100
        /\ recs[i].needed_champions = <<>>
        /\ recs[i].completion_score = 10000

C12_Witness ==
  /\ recs # NoResult
  /\ my = <<"S", "T", "P">>
  /\ \E i \in DOMAIN recs :
       /\ recs[i].deck_name = "K1"
       /\ AllCoreOwned(recs[i])
       /\ recs[i].completion_score = 10000

\* C13: every entry recommend returns has a completion score between 0
\* and 1.
C13_ScoreInUnitInterval ==
  recs # NoResult =>
    \A i \in DOMAIN recs :
      0 <= recs[i].completion_score /\ recs[i].completion_score <= 10000

C13_Witness ==
  /\ recs # NoResult
  /\ opponents # <<>>
  /\ \E i, j, k \in DOMAIN recs :
       /\ recs[i].completion_score = 10000
       /\ recs[j].completion_score = 0
       /\ recs[k].completion_score > 0
       /\ recs[k].completion_score < 10000
       /\ recs[k].needed_champions # <<>>

\* C14: the entries recommend returns are in order of non-increasing
\* completion score.
C14_SortedByScore ==
  recs # NoResult =>
    \A i, j \in DOMAIN recs :
      i < j => recs[i].completion_score >= recs[j].completion_score

C14_Witness ==
  /\ recs # NoResult
  /\ Len(recs) = 4
  /\ recs[1].deck_name = "K4"
  /\ recs[4].deck_name = "K2"
  /\ \A i \in 1..3 :
       recs[i].completion_score > recs[i + 1].completion_score

\* C15: recommend returns no entry for a meta deck whose core champion
\* list is empty or absent and exactly one entry for every other meta
\* deck.
C15_OneEntryPerDeckWithCore ==
  recs # NoResult =>
    /\ \A d \in DOMAIN meta_decks :
         Cardinality({i \in DOMAIN recs :
                        recs[i].deck_name = meta_decks[d].name})
           = IF /\ "core_champions" \in DOMAIN meta_decks[d]
                /\ meta_decks[d].core_champions # <<>>
               THEN 1 ELSE 0
    /\ \A i \in DOMAIN recs :
         \E d \in DOMAIN meta_decks : meta_decks[d].name = recs[i].deck_name

C15_Witness ==
  /\ recs # NoResult
  /\ Len(recs) = 4
  /\ \E d \in DOMAIN meta_decks : "core_champions" \notin DOMAIN meta_decks[d]
  /\ \E d \in DOMAIN meta_decks :
       /\ "core_champions" \in DOMAIN meta_decks[d]
       /\ meta_decks[d].core_champions = <<>>
  /\ \E i \in DOMAIN recs : Len(DeckNamed(recs[i].deck_name).core_champions) = 1

\* The core champions of the deck ranked at place i that are not owned, the
\* costs of those the champion table knows, and the rate of the dominant
\* cost tier among them (the most frequent, the lowest of equals) at a
\* level, in hundredths.
MissingAt(i) ==
  {n \in Elems(DeckNamed(recs[i].deck_name).core_champions) :
     n \notin Elems(my)}

TopMissingKnown ==
  IF recs = <<>> THEN {} ELSE MissingAt(1) \cap Names(champions)

DominantCost ==
  LET count(k) ==
        Cardinality({n \in TopMissingKnown : CostIn(champions, n) = k})
  IN  CHOOSE k \in 1..5 :
        /\ count(k) > 0
        /\ \A j \in 1..5 : count(j) < count(k) \/ (count(j) = count(k) /\ k <= j)

DominantRate(lvl) ==
  IF lvl \in 2..10 THEN ShopOdds[lvl][DominantCost] ELSE 0

\* C16: with 50 gold or more the reroll advice is not to reroll, to keep
\* the interest, whatever the level, the owned list, the shop and the
\* recommendations.
C16_InterestKept ==
  (advice # NoResult /\ gold >= 50) =>
    /\ advice.reroll_advice.should_reroll = FALSE
    /\ advice.reroll_advice.reason = "keep interest"

C16_Witness ==
  /\ advice # NoResult
  /\ gold = 50
  /\ level = 7
  /\ my = <<"X">>
  /\ shop = <<"Q", "R", "T">>
  /\ Cardinality(MissingAt(1)) >= 2
  /\ advice.reroll_advice.reason = "keep interest"

\* C17: with at least 20 and less than 50 gold, a top-ranked deck missing
\* at least 2 core champions and a dominant missing cost tier of rate 0.15
\* or more at the current level, the reroll advice is to reroll, whatever
\* the shop offers.
C17_RerollWhenCoreMissing ==
  (/\ advice # NoResult
   /\ gold >= 20 /\ gold < 50
   /\ recs # <<>>
   /\ Cardinality(MissingAt(1)) >= 2
   /\ Cardinality(TopMissingKnown) >= 2
   /\ DominantRate(level) >= 15)
    => advice.reroll_advice.should_reroll = TRUE

\* C18: a shop champion owned with 2 copies that is a core champion of the
\* top-ranked deck is advised as an upgrade of priority 95.
C18_OwnedPairOfTopDeckUpgrades ==
  (advice # NoResult /\ recs # <<>>) =>
    \A i \in DOMAIN advice.shop_advice :
      (/\ Copies(my, advice.shop_advice[i].name) = 2
       /\ advice.shop_advice[i].name
            \in Elems(DeckNamed(recs[1].deck_name).core_champions))
        => /\ advice.shop_advice[i].action = "upgrade"
           /\ advice.shop_advice[i].priority = 95

\* The champions the decks ranked in places lo..hi miss.
MissingIn(lo, hi) ==
  UNION {MissingAt(i) : i \in {j \in DOMAIN recs : lo <= j /\ j <= hi}}

\* The champions of cost 4 or more in the roster of a meta deck, and those
\* in a roster of at least two champions.
RosterCarries(minLen) ==
  {n \in Names(champions) :
     /\ CostIn(champions, n) >= 4
     /\ \E d \in DOMAIN meta_decks :
          LET roster == IF "champions" \in DOMAIN meta_decks[d]
                          THEN meta_decks[d].champions
                        ELSE IF "core_champions" \in DOMAIN meta_decks[d]
                          THEN meta_decks[d].core_champions
                        ELSE <<>>
          IN  Len(roster) >= minLen /\ n \in Elems(roster)}

\* The advice the claim gives a shop champion that is not owned.
Classified(e, carries) ==
  IF e.name \notin Names(champions)
    THEN e.action = "pass" /\ e.priority = 0
  ELSE IF e.name \in MissingIn(1, 3)
    THEN /\ e.action = "buy"
         /\ e.priority = IF e.name \in carries THEN 100 ELSE 80
  ELSE IF e.name \in MissingIn(4, Len(recs))
    THEN e.action = "consider" /\ e.priority = 40
  ELSE e.action = "pass" /\ e.priority = 0

\* C19, as stated: a shop champion that is not owned is bought at priority
\* 100 if a top-3 deck needs it and it is a carry (cost 4 or more in the
\* roster of a meta deck), bought at 80 if a top-3 deck needs it and it is
\* no carry, considered at 40 if only a deck ranked 4th or lower needs it,
\* and passed at 0 otherwise or when its name is unknown.
C19_ShopClassesAnyRoster ==
  advice # NoResult =>
    \A i \in DOMAIN advice.shop_advice :
      advice.shop_advice[i].name \notin Elems(my)
        => Classified(advice.shop_advice[i], RosterCarries(0))

\* C19, amended: the same, a carry being a champion of cost 4 or more in
\* the roster of a meta deck that lists at least two champions.
C19_ShopClasses ==
  advice # NoResult =>
    \A i \in DOMAIN advice.shop_advice :
      advice.shop_advice[i].name \notin Elems(my)
        => Classified(advice.shop_advice[i], RosterCarries(2))

C19_Witness ==
  /\ advice # NoResult
  /\ Len(advice.shop_advice) = 5
  /\ \E a, b, c, d \in DOMAIN advice.shop_advice :
       /\ advice.shop_advice[a].priority = 100
       /\ advice.shop_advice[b].priority = 80
       /\ advice.shop_advice[c].priority = 40
       /\ advice.shop_advice[d].name = "X"
       /\ advice.shop_advice[d].priority = 0
       /\ "X" \notin Elems(my)

\* C20: the level advice is not to level at level 9 or more; below level 9
\* it is to level exactly when the top deck misses no champion of known
\* cost, or when gold is 20 or more and the rate of the dominant missing
\* cost tier at the next level is more than 1.3 times its rate at the
\* current level.
C20_LevelAdvice ==
  advice # NoResult =>
    advice.level_advice.should_level
      = (/\ level < 9
         /\ \/ TopMissingKnown = {}
            \/ /\ gold >= 20
               /\ 10 * DominantRate(level + 1) > 13 * DominantRate(level))

C20_Witness ==
  /\ advice # NoResult
  /\ level \in 2..8
  /\ TopMissingKnown # {}
  /\ gold >= 20
  /\ 10 * DominantRate(level + 1) > 13 * DominantRate(level)
  /\ advice.level_advice.should_level = TRUE

\* The length two intervals share, the area two boxes have in common and
\* the area they cover together.
Span(a, la, b, lb) == Max2(0, Min2(a + la, b + lb) - Max2(a, b))

Common(p, q) ==
  Span(p.position[1], p.size[1], q.position[1], q.size[1])
    * Span(p.position[2], p.size[2], q.position[2], q.size[2])

Covered(p, q) ==
  p.size[1] * p.size[2] + q.size[1] * q.size[2] - Common(p, q)

\* The detections of boxes at the places K, in their order.
Pick(K) ==
  [i \in 1..Cardinality(K) |->
     boxes[CHOOSE k \in K : Cardinality({j \in K : j < k}) = i - 1]]

\* boxes is in order of descending confidence.
Descending ==
  \A i, j \in DOMAIN boxes :
    i < j => boxes[i].confidence >= boxes[j].confidence

C22_CallUsesOneThreshold == Cardinality(used) <= 1

\* C23: every detection that detect_champions returns has a confidence, the
\* best score rounded to 4 decimals, between the threshold the detector was
\* constructed with or last set to and 1.0.
C23_ConfidenceWithinThreshold ==
  dpc = "returned" =>
    \A i \in DOMAIN kept :
      /\ \A thr \in used : thr <= kept[i].confidence
      /\ kept[i].confidence <= 100000

\* C24: whenever no loop is inside its publish block and no context is
\* inside start(), the frame count is the number of frames published since
\* the start() that moved the capture from Stopped to Running.
C24_CountIsPublishedSinceStart ==
  (lock = Free /\ \A c \in Req : pc[c] \notin StartPcs /\
   \A t \in Thr : tpc[t] \notin {"pub_rest", "pub_wcount"})
    => frame_count = sinceStart

\* A loop that is inside a capture cycle: it found the Running flag set at
\* its last check and has not come back to the check.
InCycle(t) == Alive(t) /\ tpc[t] # "check"

\* C25: under any interleaving of start() and stop(), at most one capture
\* loop is alive and publishing at any time.
C25_OneLoopPublishing == Cardinality({t \in Thr : InCycle(t)}) <= 1

====
